---- MODULE Spec2Model ----
(***************************************************************************)
(* Model of the Spotify Song Suggester data-science backend (src/src/app.py *)
(* and src/src/models.py): the /get-suggestions pipeline, the               *)
(* /match-feature range filter and the /visualize radar chart.              *)
(*                                                                          *)
(* Optional values (a Python None, a SQL NULL, an absent query argument)    *)
(* are sets: {} is None, {v} is the value v.                                *)
(***************************************************************************)
EXTENDS Integers, Sequences, FiniteSets, TLC

(***************************************************************************)
(* Bounds of the model.                                                     *)
(***************************************************************************)
\* number of points the KDTree was trained on; positions are 0 .. NumPoints-1
NumPoints == 3
\* largest explicit num argument of /get-suggestions
MaxNum == 2
\* largest explicit limit argument of /match-feature
MaxLim == 2

(***************************************************************************)
(* Program constants.                                                       *)
(***************************************************************************)
\* app.py:122  request.args.get('num', default=10, type=int)
DefaultNum == 10
\* app.py:195  request.args.get('limit', default=20, type=int)
DefaultLim == 20
\* app.py:119 and app.py:234  default seed / id_a
DefaultSeed == "06w9JimcZu16KyO3WXR459"
\* app.py:237  default id_b
DefaultIdB == "6XzyAQs2jU4PMWmnFlEQLW"

None == {}
Some(v) == {v}
TheValue(opt) == CHOOSE v \in opt : TRUE

\* request.args.get(name, default=..., type=...): the argument or the default
ArgsGet(arg, default) == IF arg = None THEN default ELSE TheValue(arg)

(***************************************************************************)
(* The track table.                                                         *)
(***************************************************************************)
TrackIds == {DefaultSeed, DefaultIdB}
Positions == 0 .. NumPoints - 1
\* base feature values a track is drawn from
Vals == {0, 2}

\* the twelve columns of Track.to_array, in its order
FeatureOrder ==
    << "acousticness", "danceability", "energy", "instrumentalness", "key",
       "liveness", "loudness", "mode", "speechiness", "tempo",
       "time_signature", "valence" >>

\* a row of the reflected table 'track': the columns the routes read.
\* id is the primary key (one row per id) and track_id is not NULL; nulls is
\* the set of feature columns that are NULL in the row.
TrackRow(i, tid, v, nulls) ==
    LET col(name, x) == IF name \in nulls THEN None ELSE Some(x)
    IN  [ id               |-> i,
          track_id         |-> tid,
          track_name       |-> << "track", i >>,
          artist_name      |-> "artist",
          acousticness     |-> col("acousticness", v),
          danceability     |-> col("danceability", v),
          energy           |-> col("energy", v),
          instrumentalness |-> col("instrumentalness", v),
          key              |-> col("key", v + 4),
          liveness         |-> col("liveness", v),
          loudness         |-> col("loudness", v - 1),
          mode             |-> col("mode", v),
          speechiness      |-> col("speechiness", v),
          tempo            |-> col("tempo", v + 100),
          time_signature   |-> col("time_signature", v + 3),
          valence          |-> col("valence", v) ]

\* Track.to_array: the twelve feature columns in fixed order; a NULL column
\* stays None in the (object) array, nothing is checked
to_array(row) == [ i \in DOMAIN FeatureOrder |-> row[FeatureOrder[i]] ]

\* Track.result_dict / Track.__repr__: the JSON object of a track
Repr(row) ==
    [ track_id    |-> row.track_id,
      track_name  |-> row.track_name,
      artist_name |-> row.artist_name ]

(***************************************************************************)
(* The pickled scaler: a per-column affine transform (x - mean_) / scale_.  *)
(***************************************************************************)
ScalerArtifact ==
    [ mean_  |-> << 0, 0, 0, 0, 4, 0, -1, 0, 0, 100, 3, 0 >>,
      scale_ |-> << 2, 2, 2, 2, 2, 2, 2, 2, 2, 2, 2, 2 >> ]

HasNull(vec) == \E i \in DOMAIN vec : vec[i] = None

\* scaler.transform([vec]) for one sample without None
transform(sc, vec) ==
    [ i \in DOMAIN vec |-> (TheValue(vec[i]) - sc.mean_[i]) \div sc.scale_[i] ]

(***************************************************************************)
(* The pickled KDTree.                                                      *)
(***************************************************************************)
\* the tree built from the training snapshot vals (position p holds the
\* scaled vector of the track with base value vals[p])
KDTree(vals) ==
    [ data |-> [ p \in Positions |->
                   transform(ScalerArtifact,
                             to_array(TrackRow(p, DefaultSeed, vals[p], {}))) ] ]

RECURSIVE SumSq(_, _, _)
SumSq(x, y, i) ==
    IF i = 0 THEN 0
    ELSE (x[i] - y[i]) * (x[i] - y[i]) + SumSq(x, y, i - 1)

\* squared Euclidean distance
Dist2(x, y) == SumSq(x, y, Len(x))

\* p is strictly nearer to x than q, ties broken by position
Nearer(tree, x, p, q) ==
    LET dp == Dist2(tree.data[p], x)
        dq == Dist2(tree.data[q], x)
    IN  dp < dq \/ (dp = dq /\ p < q)

RECURSIVE NearestFirst(_, _, _)
NearestFirst(tree, x, left) ==
    IF left = {} THEN << >>
    ELSE LET p == CHOOSE a \in left :
                    \A b \in left \ {a} : Nearer(tree, x, a, b)
         IN  << p >> \o NearestFirst(tree, x, left \ {p})

\* model.query(X, k)[1][0]: the positions of the k nearest points, nearest
\* first
query(tree, x, k) == SubSeq(NearestFirst(tree, x, DOMAIN tree.data), 1, k)

\* k values for which model.query raises ValueError
BadK(tree, k) == k < 1 \/ k > Cardinality(DOMAIN tree.data)

(***************************************************************************)
(* Queries on the track table.  No query has an ORDER BY: the table may     *)
(* return its matching rows in any order.                                   *)
(***************************************************************************)
\* every ordering of the rows of a set
AnyOrder(rows) ==
    { s \in [ 1 .. Cardinality(rows) -> rows ] :
        \A i, j \in DOMAIN s : i # j => s[i] # s[j] }

\* Track.query.filter(Track.track_id == tid).first(): a matching row or None
First(table, tid) ==
    LET hits == { r \in table : r.track_id = tid }
    IN  IF hits = {} THEN { None } ELSE { Some(r) : r \in hits }

SeqToSet(s) == { s[i] : i \in DOMAIN s }

\* a fetch that forgets the filter on track_id
FetchSuggestedKeepSeed(table, ids, tid) ==
    AnyOrder({ r \in table : r.id \in SeqToSet(ids) })

\* a fetch that leaves out the first returned position instead of the rows
\* bearing the seed's track_id
FetchSuggestedDropFirst(table, ids, tid) ==
    AnyOrder({ r \in table : r.id \in SeqToSet(Tail(ids)) })

\* Track.query.filter(Track.id.in_(ids)).filter(Track.track_id != tid).all()
FetchSuggested(table, ids, tid) ==
    AnyOrder({ r \in table : r.id \in SeqToSet(ids) /\ r.track_id # tid })

\* the rows whose column col satisfies "Track.col >= lo" (lo given) and
\* "Track.col <= hi" (hi given); a NULL column satisfies no comparison
Matching(table, col, lo, hi) ==
    { r \in table :
        /\ r[col] # None
        /\ lo # None => TheValue(r[col]) >= TheValue(lo)
        /\ hi # None => TheValue(r[col]) <= TheValue(hi) }

\* query.limit(n).all(): any n of the rows (all of them when fewer), in any
\* order
Limit(rows, n) ==
    UNION { AnyOrder(some) :
              some \in { x \in SUBSET rows :
                           \/ Cardinality(x) = n
                           \/ Cardinality(x) < n /\ x = rows } }

\* truth value of an optional float in "if min_ and max_": None and 0.0 are
\* false
Truthy(x) == x # None /\ x # Some(0)

(***************************************************************************)
(* matplotlib.pyplot: the figures pyplot has registered, oldest first (the  *)
(* last one is the current figure), and what is drawn on each figure.       *)
(***************************************************************************)
Threads == { "t1", "t2" }
\* a figure is named by the thread whose plt.subplots made it; "pyplot"
\* names the blank figure gcf() makes when no figure is registered
Figures == Threads \cup { "pyplot" }

\* plt.gcf(): the current figure
Gcf(registered) ==
    IF registered = << >> THEN "pyplot" ELSE registered[Len(registered)]

\* the registry after plt.gcf()
AfterGcf(registered) ==
    IF registered = << >> THEN << "pyplot" >> ELSE registered

\* the drawings after plt.gcf(): a figure gcf() makes is blank
DrawnAfterGcf(registered, drawings) ==
    IF registered = << >> THEN [ drawings EXCEPT !["pyplot"] = << >> ]
    ELSE drawings

\* lines 264-271, 288-301: the polygon of one track, its label and its six
\* plotted features
Polygon(row) ==
    [ label  |-> row.track_name,
      values |-> << row.acousticness, row.danceability, row.energy,
                    row.instrumentalness, row.liveness, row.valence >> ]

\* the chart of two tracks
Chart(a, b) == << Polygon(a), Polygon(b) >>

VARIABLES
    store,             \* the rows of table 'track'
    model,             \* the KDTree loaded at startup
    scaler,            \* the scaler loaded at startup
    pc,                \* position of the /get-suggestions handler
    seed_track,        \* its local: the seed argument
    num_tracks,        \* its local: the num argument
    query1,            \* its local: the seed row or None
    suggested_tracks,  \* its local: positions returned by the tree
    query2,            \* its local: rows fetched for the positions
    response,          \* the HTTP response of the handler
    accesses,          \* the store and index accesses the request made so far
    indexArg,          \* the vector handed to model.query, or None
    prev,              \* results of the request a follow-up repeats
    feature,           \* /match-feature: the feature argument
    min_,              \* /match-feature: the min argument or None
    max_,              \* /match-feature: the max argument or None
    lim,               \* /match-feature: the limit argument
    output,            \* /match-feature: the rows it returns
    mf_pc,             \* /match-feature: position of the handler
    vpc,               \* /visualize: position of each thread's handler
    id_a,              \* /visualize: each thread's id_a argument
    id_b,              \* /visualize: each thread's id_b argument
    track_a,           \* /visualize: each thread's row of id_a
    track_b,           \* /visualize: each thread's row of id_b
    data,              \* /visualize: the picture each thread saved
    figs,              \* pyplot: the registered figures, current one last
    drawn              \* pyplot: what is drawn on each figure

artifacts == << store, model, scaler >>

suggestVars ==
    << pc, seed_track, num_tracks, query1, suggested_tracks, query2,
       response, accesses, indexArg, prev >>

matchVars == << feature, min_, max_, lim, output, mf_pc >>

visualizeVars ==
    << vpc, id_a, id_b, track_a, track_b, data, figs, drawn >>

vars == << artifacts, suggestVars, matchVars, visualizeVars >>

NoResponse == [ status |-> 0 ]

\* Flask's answer to an exception that escapes a view: 500
ServerError(exc) == [ status |-> 500, error |-> exc ]

(***************************************************************************)
(* Startup: create_app reflects the table and unpickles model and scaler.   *)
(***************************************************************************)
\* what the table may hold at an id: nothing, or a track (its track_id, its
\* NULL columns) that has the features of the training snapshot
RowKinds ==
    { None } \cup
    { Some(<< tid, nulls >>) : tid \in TrackIds, nulls \in { {}, { "energy" } } }

Tables(vals) ==
    { { TrackRow(p, TheValue(kinds[p])[1], vals[p], TheValue(kinds[p])[2]) :
          p \in { q \in Positions : kinds[q] # None } } :
        kinds \in [ Positions -> RowKinds ] }

Init ==
    /\ \E vals \in [ Positions -> Vals ] :
         /\ model = KDTree(vals)
         /\ store \in Tables(vals)
    /\ scaler = ScalerArtifact
    /\ pc = "idle"
    /\ seed_track = DefaultSeed
    /\ num_tracks = DefaultNum
    /\ query1 = None
    /\ suggested_tracks = << >>
    /\ query2 = << >>
    /\ response = NoResponse
    /\ accesses = << >>
    /\ indexArg = None
    /\ prev = None
    /\ feature = "energy"
    /\ min_ = None
    /\ max_ = None
    /\ lim = DefaultLim
    /\ output = << >>
    /\ mf_pc = "idle"
    /\ vpc = [ t \in Threads |-> "idle" ]
    /\ id_a = [ t \in Threads |-> DefaultSeed ]
    /\ id_b = [ t \in Threads |-> DefaultIdB ]
    /\ track_a = [ t \in Threads |-> None ]
    /\ track_b = [ t \in Threads |-> None ]
    /\ data = [ t \in Threads |-> << >> ]
    /\ figs = << >>
    /\ drawn = [ f \in Figures |-> << >> ]

(***************************************************************************)
(* /get-suggestions                                                         *)
(***************************************************************************)
SeedArgs == { None } \cup { Some(t) : t \in TrackIds }
NumArgs == { None } \cup { Some(n) : n \in -1 .. MaxNum }

\* lines 118-123: the arguments, in a fresh frame
Enter(seed, num, before) ==
    /\ seed_track' = seed
    /\ num_tracks' = num
    /\ query1' = None
    /\ suggested_tracks' = << >>
    /\ query2' = << >>
    /\ response' = NoResponse
    /\ accesses' = << >>
    /\ indexArg' = None
    /\ prev' = before
    /\ UNCHANGED << artifacts, matchVars, visualizeVars >>

\* a request arrives
Start ==
    /\ pc = "idle"
    /\ \E seed \in SeedArgs, num \in NumArgs :
         Enter(ArgsGet(seed, DefaultSeed), ArgsGet(num, DefaultNum), None)
    /\ pc' = "lookup"

\* the client repeats an answered request asking for one more track
FollowUp ==
    /\ pc = "done"
    /\ response.status = 200
    /\ num_tracks >= 1
    /\ num_tracks < MaxNum
    /\ Enter(seed_track, num_tracks + 1,
             Some([ seed |-> seed_track, num |-> num_tracks,
                    results |-> response.results ]))
    /\ pc' = "lookup"

\* line 124: the seed row
Lookup ==
    /\ pc = "lookup"
    /\ query1' \in First(store, seed_track)
    /\ accesses' = Append(accesses, "store")
    /\ pc' = "query"
    /\ UNCHANGED << artifacts, matchVars, visualizeVars, seed_track,
                    num_tracks, suggested_tracks, query2, response, indexArg,
                    prev >>

\* an exception escapes the view
Raise(exc) ==
    /\ pc' = "done"
    /\ response' = ServerError(exc)

\* lines 125-128: to_array, scaler.transform, model.query
QueryIndex ==
    /\ pc = "query"
    /\ UNCHANGED << artifacts, matchVars, visualizeVars, seed_track,
                    num_tracks, query1, query2, prev >>
    /\ \/ \* query1 is None: None has no to_array
          /\ query1 = None
          /\ Raise("AttributeError")
          /\ UNCHANGED << suggested_tracks, accesses, indexArg >>
       \/ \* a None feature becomes NaN and the scaler refuses the sample
          /\ query1 # None
          /\ HasNull(to_array(TheValue(query1)))
          /\ Raise("ValueError")
          /\ UNCHANGED << suggested_tracks, accesses, indexArg >>
       \/ \* a None feature becomes NaN, the scaler lets NaN through and the
          \* tree refuses the query
          /\ query1 # None
          /\ HasNull(to_array(TheValue(query1)))
          /\ indexArg' = Some(to_array(TheValue(query1)))
          /\ accesses' = Append(accesses, "index")
          /\ Raise("ValueError")
          /\ UNCHANGED suggested_tracks
       \/ \* the tree refuses k
          /\ query1 # None
          /\ ~HasNull(to_array(TheValue(query1)))
          /\ BadK(model, num_tracks + 1)
          /\ indexArg' = Some(transform(scaler, to_array(TheValue(query1))))
          /\ accesses' = Append(accesses, "index")
          /\ Raise("ValueError")
          /\ UNCHANGED suggested_tracks
       \/ /\ query1 # None
          /\ ~HasNull(to_array(TheValue(query1)))
          /\ ~BadK(model, num_tracks + 1)
          /\ indexArg' = Some(transform(scaler, to_array(TheValue(query1))))
          /\ accesses' = Append(accesses, "index")
          /\ suggested_tracks' =
                 query(model, transform(scaler, to_array(TheValue(query1))),
                       num_tracks + 1)
          /\ pc' = "fetch"
          /\ UNCHANGED response

\* lines 129-130: the rows of the positions, the seed's track_id left out
Fetch ==
    /\ pc = "fetch"
    /\ query2' \in FetchSuggested(store, suggested_tracks, seed_track)
    /\ accesses' = Append(accesses, "store")
    /\ pc' = "respond"
    /\ UNCHANGED << artifacts, matchVars, visualizeVars, seed_track,
                    num_tracks, query1, suggested_tracks, response, indexArg,
                    prev >>

\* line 132: the JSON text
Respond ==
    /\ pc = "respond"
    /\ response' = [ status  |-> 200,
                     seed    |-> Repr(TheValue(query1)),
                     results |-> [ i \in DOMAIN query2 |-> Repr(query2[i]) ] ]
    /\ pc' = "done"
    /\ UNCHANGED << artifacts, matchVars, visualizeVars, seed_track,
                    num_tracks, query1, suggested_tracks, query2, accesses,
                    indexArg, prev >>

\* the response is sent and the handler's frame is gone
Return ==
    /\ pc = "done"
    /\ Enter(DefaultSeed, DefaultNum, None)
    /\ pc' = "idle"

Next ==
    Start \/ FollowUp \/ Lookup \/ QueryIndex \/ Fetch \/ Respond \/ Return

Spec == Init /\ [][Next]_vars

(***************************************************************************)
(* /match-feature                                                           *)
(***************************************************************************)
MatchFeatures == { "energy", "loudness" }
FeatureArgs == { None } \cup { Some(f) : f \in MatchFeatures }
BoundArgs == { None } \cup { Some(x) : x \in -1 .. 1 }
LimArgs == { None } \cup { Some(n) : n \in 0 .. MaxLim }

\* lines 198-207: the rows match_feature may return
MatchOutput(table, col, lo, hi, n) ==
    IF Truthy(lo) /\ Truthy(hi) THEN Limit(Matching(table, col, lo, hi), n)
    ELSE IF Truthy(lo) THEN Limit(Matching(table, col, lo, None), n)
    ELSE IF Truthy(hi) THEN Limit(Matching(table, col, None, hi), n)
    ELSE { << >> }

\* lines 185-207: the arguments and the query
match_feature ==
    /\ mf_pc = "idle"
    /\ \E f \in FeatureArgs, lo \in BoundArgs, hi \in BoundArgs, n \in LimArgs :
         /\ feature' = ArgsGet(f, "energy")
         /\ min_' = lo
         /\ max_' = hi
         /\ lim' = ArgsGet(n, DefaultLim)
    /\ output' \in MatchOutput(store, feature', min_', max_', lim')
    /\ mf_pc' = "return"
    /\ UNCHANGED << artifacts, suggestVars, visualizeVars >>

\* line 209: str(output) is sent and the handler's frame is gone
mf_return ==
    /\ mf_pc = "return"
    /\ mf_pc' = "idle"
    /\ feature' = "energy"
    /\ min_' = None
    /\ max_' = None
    /\ lim' = DefaultLim
    /\ output' = << >>
    /\ UNCHANGED << artifacts, suggestVars, visualizeVars >>

NextMatch == match_feature \/ mf_return

SpecMatch == Init /\ [][NextMatch]_vars

(***************************************************************************)
(* /visualize, served by two threads                                        *)
(***************************************************************************)
IdAArgs == { None } \cup { Some(t) : t \in TrackIds }
IdBArgs == { None }

\* the handler's frame before its first statement
v_frame(t, at) ==
    /\ vpc' = [ vpc EXCEPT ![t] = at ]
    /\ track_a' = [ track_a EXCEPT ![t] = None ]
    /\ track_b' = [ track_b EXCEPT ![t] = None ]
    /\ data' = [ data EXCEPT ![t] = << >> ]

\* lines 231-244: plt.switch_backend('Agg') closes every registered figure
\* (pyplot's close("all")); then the arguments are read
v_enter(t) ==
    /\ vpc[t] = "idle"
    /\ \E a \in IdAArgs, b \in IdBArgs :
         /\ id_a' = [ id_a EXCEPT ![t] = ArgsGet(a, DefaultSeed) ]
         /\ id_b' = [ id_b EXCEPT ![t] = ArgsGet(b, DefaultIdB) ]
    /\ figs' = << >>
    /\ v_frame(t, "lookup")
    /\ UNCHANGED << artifacts, suggestVars, matchVars, drawn >>

\* lines 246-262: the two rows and their dictionaries
v_lookup(t) ==
    /\ vpc[t] = "lookup"
    /\ UNCHANGED << artifacts, suggestVars, matchVars, data, figs, drawn >>
    /\ \E a \in First(store, id_a[t]), b \in First(store, id_b[t]) :
         \/ \* None has no to_dict: AttributeError, answered with 500
            /\ a = None \/ b = None
            /\ vpc' = [ vpc EXCEPT ![t] = "idle" ]
            /\ id_a' = [ id_a EXCEPT ![t] = DefaultSeed ]
            /\ id_b' = [ id_b EXCEPT ![t] = DefaultIdB ]
            /\ UNCHANGED << track_a, track_b >>
         \/ /\ a # None
            /\ b # None
            /\ track_a' = [ track_a EXCEPT ![t] = a ]
            /\ track_b' = [ track_b EXCEPT ![t] = b ]
            /\ vpc' = [ vpc EXCEPT ![t] = "subplots" ]
            /\ UNCHANGED << id_a, id_b >>

\* lines 278-285: plt.subplots makes a blank figure and makes it current
v_subplots(t) ==
    /\ vpc[t] = "subplots"
    /\ figs' = Append(figs, t)
    /\ drawn' = [ drawn EXCEPT ![t] = << >> ]
    /\ vpc' = [ vpc EXCEPT ![t] = "plot" ]
    /\ UNCHANGED << artifacts, suggestVars, matchVars, id_a, id_b, track_a,
                    track_b, data >>

\* lines 288-311: ax.plot and ax.fill draw on the thread's own axes
v_plot(t) ==
    /\ vpc[t] = "plot"
    /\ drawn' = [ drawn EXCEPT ![t] =
                     Chart(TheValue(track_a[t]), TheValue(track_b[t])) ]
    /\ vpc' = [ vpc EXCEPT ![t] = "savefig" ]
    /\ UNCHANGED << artifacts, suggestVars, matchVars, id_a, id_b, track_a,
                    track_b, data, figs >>

\* lines 314-317: plt.savefig saves the current figure
v_savefig(t) ==
    /\ vpc[t] = "savefig"
    /\ figs' = AfterGcf(figs)
    /\ drawn' = DrawnAfterGcf(figs, drawn)
    /\ data' = [ data EXCEPT ![t] = drawn'[Gcf(figs)] ]
    /\ vpc' = [ vpc EXCEPT ![t] = "clf" ]
    /\ UNCHANGED << artifacts, suggestVars, matchVars, id_a, id_b, track_a,
                    track_b >>

\* line 318: plt.clf clears the current figure
v_clf(t) ==
    /\ vpc[t] = "clf"
    /\ figs' = AfterGcf(figs)
    /\ drawn' = [ DrawnAfterGcf(figs, drawn) EXCEPT ![Gcf(figs)] = << >> ]
    /\ vpc' = [ vpc EXCEPT ![t] = "return" ]
    /\ UNCHANGED << artifacts, suggestVars, matchVars, id_a, id_b, track_a,
                    track_b, data >>

\* line 319: the picture in data is sent and the handler's frame is gone
v_return(t) ==
    /\ vpc[t] = "return"
    /\ id_a' = [ id_a EXCEPT ![t] = DefaultSeed ]
    /\ id_b' = [ id_b EXCEPT ![t] = DefaultIdB ]
    /\ v_frame(t, "idle")
    /\ UNCHANGED << artifacts, suggestVars, matchVars, figs, drawn >>

visualize(t) ==
    \/ v_enter(t)
    \/ v_lookup(t)
    \/ v_subplots(t)
    \/ v_plot(t)
    \/ v_savefig(t)
    \/ v_clf(t)
    \/ v_return(t)

NextVisualize == \E t \in Threads : visualize(t)

\* the tables of the two-thread runs: a track at every position, no NULL
\* column
InitVisualize ==
    /\ Init
    /\ Cardinality(store) = NumPoints
    /\ \A r \in store : ~HasNull(to_array(r))

SpecVisualize == InitVisualize /\ [][NextVisualize]_vars

(***************************************************************************)
(* Properties of /get-suggestions                                           *)
(***************************************************************************)
\* the handler answered with the JSON text of line 132
Answered == pc = "done" /\ response.status = 200

\* the rows of the table at the positions the tree returned
RowsAtPositions == { r \in store : r.id \in SeqToSet(suggested_tracks) }

\* a row bearing the seed's track_id sits at a returned position
SeedReturned == \E r \in RowsAtPositions : r.track_id = seed_track

\* distance of a fetched row's training point from the seed's scaled vector
DistanceFromSeed(row) == Dist2(model.data[row.id], TheValue(indexArg))

StrictPrefix(s, t) ==
    /\ Len(s) < Len(t)
    /\ \A i \in 1 .. Len(s) : s[i] = t[i]

C2_AscendingDistance ==
    Answered =>
        \A i, j \in DOMAIN query2 :
            i < j => DistanceFromSeed(query2[i]) <= DistanceFromSeed(query2[j])

\* C3: a seed that is not in the table is answered with TrackNotFoundError, a
\* client error, without an index query and without a partial result
C3_TrackNotFound ==
    (pc = "done" /\ ~\E r \in store : r.track_id = seed_track) =>
        /\ response = [ status |-> 404, error |-> "TrackNotFoundError" ]
        /\ indexArg = None

\* C4: a request with num <= 0 makes no store access and no index access,
\* and is answered with a 400-class error
C4_RejectedBeforeAccess ==
    (pc # "idle" /\ num_tracks <= 0) =>
        /\ accesses = << >>
        /\ pc = "done" => response.status \in 400 .. 499

\* C5: the results for num = n are a strict prefix of the results of the
\* same request repeated with num = n+1 (stated for the requests that were
\* answered with n and with n+1 tracks)
C5_StrictPrefix ==
    (/\ Answered
     /\ prev # None
     /\ Len(TheValue(prev).results) = TheValue(prev).num
     /\ Len(response.results) = num_tracks) =>
        StrictPrefix(TheValue(prev).results, response.results)

\* C6: with at least n+1 tracks in the table and the seed among them, the
\* answer carries the seed and exactly n pairwise distinct tracks, none the
\* seed, also when rows share the seed's feature vector (stated for the
\* tables that hold a track at every position and the seed's track_id once)
C6_ExactlyNum ==
    (/\ Answered
     /\ num_tracks >= 1
     /\ Cardinality(store) >= num_tracks + 1
     /\ \A p \in Positions : \E r \in store : r.id = p
     /\ Cardinality({ r \in store : r.track_id = seed_track }) = 1) =>
        /\ response.seed.track_id = seed_track
        /\ Len(response.results) = num_tracks
        /\ \A i, j \in DOMAIN response.results :
               i # j => response.results[i] # response.results[j]
        /\ \A i \in DOMAIN response.results :
               response.results[i].track_id # seed_track

\* C7: a seed row with a NULL feature column is answered with
\* MissingFeatureError and no vector built from the row reaches the index
C7_MissingFeature ==
    (pc = "done" /\ query1 # None /\ HasNull(to_array(TheValue(query1)))) =>
        /\ response = [ status |-> 500, error |-> "MissingFeatureError" ]
        /\ indexArg = None

\* C9 (as stated): every row at a returned position whose track_id differs
\* from the seed's is in the results, and when the seed is not at a returned
\* position the results hold num_tracks+1 entries
C9_NoNeighbourDropped ==
    Answered =>
        /\ \A r \in RowsAtPositions :
               r.track_id # seed_track =>
                   \E i \in DOMAIN response.results :
                       response.results[i] = Repr(r)
        /\ ~SeedReturned => Len(response.results) = num_tracks + 1

\* C9 (amended): the results are exactly the rows at the returned positions
\* whose track_id differs from the seed's, one entry each; they are
\* num_tracks+1 entries when every returned position has a row in the table
\* and none of these bears the seed's track_id
C9_KeptByIdentifier ==
    Answered =>
        /\ \A r \in RowsAtPositions :
               r.track_id # seed_track =>
                   \E i \in DOMAIN response.results :
                       response.results[i] = Repr(r)
        /\ Len(response.results) =
               Cardinality({ r \in RowsAtPositions : r.track_id # seed_track })
        /\ (/\ ~SeedReturned
            /\ \A p \in SeqToSet(suggested_tracks) :
                   \E r \in store : r.id = p)
               => Len(response.results) = num_tracks + 1

\* an answered request whose seed is at no returned position and whose
\* results hold num_tracks+1 entries
C9_Witness ==
    /\ Answered
    /\ ~SeedReturned
    /\ suggested_tracks # << >>
    /\ Len(response.results) = num_tracks + 1
    /\ Len(response.results) >= 2

(***************************************************************************)
(* Properties of /match-feature and /visualize                              *)
(***************************************************************************)
\* the picture a thread is about to send is the chart of its own two tracks
OwnPicture(t) ==
    vpc[t] = "return" =>
        data[t] = Chart(TheValue(track_a[t]), TheValue(track_b[t]))

\* C8: no step of any request changes the scaler, the index or the track
\* table, and whatever the interleaving a request's response is the one its
\* own parameters determine
C8_RequestsIsolated ==
    [][ /\ UNCHANGED << store, model, scaler >>
        /\ \A t \in Threads : OwnPicture(t)' ]_vars

\* C10: match_feature returns at most limit tracks, and the feature of each
\* is >= min when min was supplied and <= max when max was supplied, also
\* for a bound of 0 (stated for the ranges with min <= max)
C10_InRange ==
    (/\ mf_pc = "return"
     /\ (min_ # None /\ max_ # None) => TheValue(min_) <= TheValue(max_)) =>
        /\ Len(output) <= lim
        /\ \A i \in DOMAIN output :
               /\ output[i][feature] # None
               /\ min_ # None =>
                      TheValue(output[i][feature]) >= TheValue(min_)
               /\ max_ # None =>
                      TheValue(output[i][feature]) <= TheValue(max_)

====
